---- MODULE Spec2Model ----
(***************************************************************************)
(* A model of src/main.go: a shared RateLimiter, one processSymbol         *)
(* goroutine per symbol, and main waiting for all of them.                 *)
(*                                                                         *)
(* Time.  The program only ever compares a stored time.Time with the       *)
(* current instant (now.After(resetTime)) or subtracts the current         *)
(* instant from it (resetTime.Sub(now)), so every stored instant is kept   *)
(* as its offset from the current instant, in clock ticks.  Tick lets one  *)
(* tick pass.  An offset below 0 means "in the past"; all such offsets     *)
(* behave alike and are kept as -1.                                        *)
(***************************************************************************)
EXTENDS Integers, Sequences, FiniteSets, TLC

\* The 61 s of lines 25 and 37, in clock ticks.
Period == 3
\* The 5 s of line 124, in clock ticks.
Backoff == 1
\* NewRateLimiter's argument is drawn from 1..MaxLimit.
MaxLimit == 2
\* The source holds the trades with ids in 0..MaxId, and returns pages of at most
\* MaxPageLen of them.
MaxPageLen == 2
MaxId == 1

symbols == <<"ETHUSDC", "ETHUSDT", "ETHBTC">>
Symbols == {symbols[k] : k \in 1..Len(symbols)}
NoOne == "nobody"
None == -1

VARIABLES
    count,          \* rl.count
    limitPerMin,    \* rl.limitPerMin
    resetTime,      \* rl.resetTime, as ticks from the current instant (-1: past)
    mu,             \* rl.mu: the goroutine holding it, or NoOne
    mainPc,         \* where main is
    i,              \* main's position in symbols
    wg,             \* the WaitGroup's counter
    launched,       \* history: how many goroutines main started for each symbol
    pc,             \* where each goroutine is
    sleepDuration,  \* the remaining time of each goroutine's time.Sleep
    fromId,         \* processSymbol's fromId
    trades,         \* processSymbol's trades, the page being processed
    groupedTrades,  \* processSymbol's groupedTrades: the entries not yet ranged over
    writable,       \* the symbols whose directory the file system lets the program create
    dirs,           \* the symbol directories that exist
    files,          \* the files that exist: path |-> lines
    grantAges,      \* history: the ages of the grants younger than Period, newest first
    permits,        \* history: each goroutine's returns from Wait less its fetchTrades calls
    answers,        \* history: what fetchTrades has returned to each goroutine so far
    lastFetch,      \* history: the outcome of each goroutine's latest fetch
    lastPageId,     \* history: the last TradeId of each goroutine's latest non-empty page
    fetched         \* history: the trades fetchTrades returned to each goroutine

rlVars == <<count, limitPerMin, resetTime, mu>>
mainVars == <<mainPc, i, wg, launched>>
dataVars == <<fromId, trades, groupedTrades, writable, dirs, files>>
histVars == <<permits, answers, lastFetch, lastPageId, fetched>>
vars == <<rlVars, mainVars, pc, sleepDuration, dataVars, grantAges, histVars>>

Max(a, b) == IF a >= b THEN a ELSE b
Min(a, b) == IF a <= b THEN a ELSE b

----
(***************************************************************************)
(* The pure functions: formatting, the date of a timestamp, the            *)
(* partitioner and the effect of one saveToCSV call on the file system.    *)
(***************************************************************************)
Digit(d) ==
    CASE d = 0 -> "0" [] d = 1 -> "1" [] d = 2 -> "2" [] d = 3 -> "3" [] d = 4 -> "4"
      [] d = 5 -> "5" [] d = 6 -> "6" [] d = 7 -> "7" [] d = 8 -> "8" [] d = 9 -> "9"

RECURSIVE Decimal(_)
Decimal(n) == IF n < 10 THEN Digit(n) ELSE Decimal(n \div 10) \o Digit(n % 10)

\* strconv.FormatInt(n, 10)
FormatInt(n) == IF n < 0 THEN "-" \o Decimal(-n) ELSE Decimal(n)

\* strconv.FormatBool
FormatBool(b) == IF b THEN "true" ELSE "false"

\* A number in a field of the given width, zero-padded, as time.Format writes it.
RECURSIVE Padded(_, _)
Padded(n, width) ==
    IF width <= 1 THEN Decimal(n) ELSE
    IF Len(Decimal(n)) >= width THEN Decimal(n) ELSE "0" \o Padded(n, width - 1)

MsPerDay == 86400000
MsPerHour == 3600000

\* The proleptic Gregorian date of the day `days` after 1970-01-01.
CivilDate(days) ==
    LET z == days + 719468
        era == z \div 146097
        doe == z - era * 146097
        yoe == (doe - doe \div 1460 + doe \div 36524 - doe \div 146096) \div 365
        doy == doe - (365 * yoe + yoe \div 4 - yoe \div 100)
        mp == (5 * doy + 2) \div 153
        m == IF mp < 10 THEN mp + 3 ELSE mp - 9
    IN  [year |-> yoe + era * 400 + (IF m <= 2 THEN 1 ELSE 0),
         month |-> m,
         day |-> doy - (153 * mp + 2) \div 5 + 1]

\* t.Format("2006-01-02") of the instant `ms` milliseconds after the epoch, read
\* on a clock `offset` milliseconds ahead of UTC.
FormatDate(ms, offset) ==
    LET c == CivilDate((ms + offset) \div MsPerDay)
    IN  Padded(c.year, 4) \o "-" \o Padded(c.month, 2) \o "-" \o Padded(c.day, 2)

\* line 149, the zone the code has commented out
DateStrKST(Timestamp) == FormatDate(Timestamp, 9 * MsPerHour)

\* lines 150-151
DateStr(Timestamp) == FormatDate(Timestamp, 0)

\* lines 152-158
Record(trade) ==
    <<FormatInt(trade.TradeId), trade.Price, trade.Quantity,
      FormatInt(trade.Timestamp), FormatBool(trade.IsMaker)>>

\* line 159 on one map: grouped[dateStr] = append(grouped[dateStr], record)
AppendTo(grouped, dateStr, record) ==
    [d \in DOMAIN grouped \cup {dateStr} |->
        IF d = dateStr
        THEN Append(IF d \in DOMAIN grouped THEN grouped[d] ELSE <<>>, record)
        ELSE grouped[d]]

\* lines 148-160, from the map built so far
RECURSIVE GroupLoop(_, _)
GroupLoop(rest, grouped) ==
    IF rest = <<>> THEN grouped
    ELSE GroupLoop(Tail(rest),
                   AppendTo(grouped, DateStr(Head(rest).Timestamp), Record(Head(rest))))

groupTradesByDate(page) == GroupLoop(page, <<>>)

\* line 135
FilePath(symbol, date) == symbol \o "/" \o date \o ".csv"

header == <<"tradeId", "price", "quantity", "timestamp", "isBuyerMaker">>

(***************************************************************************)
(* What the operating system does to one saveToCSV call: OpenFile fails,   *)
(* or it succeeds and the writes reach the file up to `wrote` lines (all   *)
(* of them when wrote is at least their number).                           *)
(***************************************************************************)
MaxLines == MaxPageLen + 1
Outcomes == [opened : {FALSE}, wrote : {0}] \cup [opened : {TRUE}, wrote : 0..MaxLines]

\* saveToCSV on file system fs: the file system after the call, and whether the
\* call returned an error.
saveToCSV(fs, filePath, records, outcome) ==
    LET isNewFile == filePath \notin DOMAIN fs
        old == IF isNewFile THEN <<>> ELSE fs[filePath]
        lines == (IF isNewFile THEN <<header>> ELSE <<>>) \o records
        n == Min(outcome.wrote, Len(lines))
    IN  IF ~outcome.opened
        THEN [fs |-> fs, err |-> TRUE]
        ELSE [fs |-> [f \in DOMAIN fs \cup {filePath} |->
                        IF f = filePath THEN old \o SubSeq(lines, 1, n) ELSE fs[f]],
              err |-> n < Len(lines)]

----
(***************************************************************************)
(* The source.  fetchTrades is a call to an exchange this program does not *)
(* control: it may fail, return no trade, or return a page of trades.  A   *)
(* page holds trades with ids at or above the fromId asked for, in         *)
(* ascending order of id; their timestamps are arbitrary.                  *)
(***************************************************************************)
Stamps == {MsPerDay - 1, MsPerDay}
Trades == [TradeId : 0..MaxId, Price : {"0.5"}, Quantity : {"7"},
           Timestamp : Stamps, IsMaker : {TRUE}]
Pages == UNION {[1..n -> Trades] : n \in 1..MaxPageLen}

Ascending(page) == \A k \in 1..(Len(page) - 1) : page[k].TradeId < page[k + 1].TradeId

\* the pages fetchTrades(symbol, from) may return
PagesFrom(from) == {page \in Pages : Ascending(page) /\ page[1].TradeId >= from}

\* answers: "nothing" before the first call, "page" after one call that returned a
\* page, "page,empty" after a second one that returned no trade, "other" otherwise.
Answered(sofar, what) ==
    CASE sofar = "nothing" /\ what = "page" -> "page"
      [] sofar = "page" /\ what = "empty" -> "page,empty"
      [] OTHER -> "other"

----
\* lines 22-27
NewRateLimiter(limit) ==
    /\ limitPerMin = limit
    /\ count = 0
    /\ resetTime = Period
    /\ mu = NoOne

\* The state main starts in, in a file system that lets the directories of the
\* symbols in `creatable` be created.
Start(creatable) ==
    /\ \E limit \in 1..MaxLimit : NewRateLimiter(limit)
    /\ writable = creatable
    /\ mainPc = "spawn"
    /\ i = 1
    /\ wg = 0
    /\ launched = [w \in Symbols |-> 0]
    /\ pc = [w \in Symbols |-> "idle"]
    /\ sleepDuration = [w \in Symbols |-> 0]
    /\ fromId = [w \in Symbols |-> 0]
    /\ trades = [w \in Symbols |-> <<>>]
    /\ groupedTrades = [w \in Symbols |-> <<>>]
    /\ dirs = {}
    /\ files = <<>>
    /\ grantAges = <<>>
    /\ permits = [w \in Symbols |-> 0]
    /\ answers = [w \in Symbols |-> "nothing"]
    /\ lastFetch = [w \in Symbols |-> "none"]
    /\ lastPageId = [w \in Symbols |-> None]
    /\ fetched = [w \in Symbols |-> {}]

Init == \E creatable \in SUBSET Symbols : Start(creatable)

\* Only the first symbol's directory can be created: one goroutine gets to work.
InitOne == Start({symbols[1]})

----
(* main *)

\* lines 189-195: one turn of the loop
Spawn ==
    /\ mainPc = "spawn"
    /\ wg' = wg + 1
    /\ pc' = [pc EXCEPT ![symbols[i]] = "start"]
    /\ launched' = [launched EXCEPT ![symbols[i]] = @ + 1]
    /\ i' = i + 1
    /\ mainPc' = IF i = Len(symbols) THEN "wait" ELSE "spawn"
    /\ UNCHANGED <<rlVars, sleepDuration, dataVars, grantAges, histVars>>

\* main reports completion without waiting for the goroutines
WgWaitReturnsEarly ==
    /\ mainPc = "wait"
    /\ mainPc' = "finished"
    /\ UNCHANGED <<rlVars, i, wg, launched, pc, sleepDuration, dataVars, grantAges, histVars>>

\* lines 197-198
WgWait ==
    /\ mainPc = "wait"
    /\ wg = 0
    /\ mainPc' = "finished"
    /\ UNCHANGED <<rlVars, i, wg, launched, pc, sleepDuration, dataVars, grantAges, histVars>>

----
(* RateLimiter.Wait *)

\* line 31
Lock(w) ==
    /\ pc[w] = "wait"
    /\ mu = NoOne
    /\ mu' = w
    /\ pc' = [pc EXCEPT ![w] = "locked"]
    /\ UNCHANGED <<count, limitPerMin, resetTime, mainVars, sleepDuration, dataVars,
                   grantAges, histVars>>

\* line 34 as now.After(rl.resetTime.Add(61 * time.Second))
ExpiredAPeriodAgo == resetTime < 0 - Period

\* line 34: now.After(rl.resetTime)
Expired == resetTime < 0

\* lines 33-47, all on the instant read at line 33, granting below `cap`
CheckUpTo(w, cap) ==
    /\ pc[w] = "locked"
    /\ LET cnt == IF Expired THEN 0 ELSE count
           rst == IF Expired THEN Period ELSE resetTime
       IN  /\ resetTime' = rst
           /\ IF cnt < cap
                 THEN /\ count' = cnt + 1
                      /\ pc' = [pc EXCEPT ![w] = "granted"]
                      /\ grantAges' = <<0>> \o grantAges
                      /\ UNCHANGED sleepDuration
                 ELSE /\ count' = cnt
                      /\ pc' = [pc EXCEPT ![w] = "refused"]
                      /\ sleepDuration' = [sleepDuration EXCEPT ![w] = rst]
                      /\ UNCHANGED grantAges
    /\ UNCHANGED <<limitPerMin, mu, mainVars, dataVars, histVars>>

\* line 40 as rl.count <= rl.limitPerMin
CheckOffByOne(w) == CheckUpTo(w, limitPerMin + 1)

\* lines 33-47
Check(w) == CheckUpTo(w, limitPerMin)

\* lines 43-44: Wait returns
UnlockGranted(w) ==
    /\ pc[w] = "granted"
    /\ mu' = NoOne
    /\ pc' = [pc EXCEPT ![w] = "fetch"]
    /\ permits' = [permits EXCEPT ![w] = @ + 1]
    /\ UNCHANGED <<count, limitPerMin, resetTime, mainVars, sleepDuration, dataVars,
                   grantAges, answers, lastFetch, lastPageId, fetched>>

\* lines 49-53 without the Unlock of line 49
UnlockRefusedKeepsLock(w) ==
    /\ pc[w] = "refused"
    /\ pc' = [pc EXCEPT ![w] = IF sleepDuration[w] > 0 THEN "sleeping" ELSE "wait"]
    /\ UNCHANGED <<rlVars, mainVars, sleepDuration, dataVars, grantAges, histVars>>

\* lines 49-53
UnlockRefused(w) ==
    /\ pc[w] = "refused"
    /\ mu' = NoOne
    /\ pc' = [pc EXCEPT ![w] = IF sleepDuration[w] > 0 THEN "sleeping" ELSE "wait"]
    /\ UNCHANGED <<count, limitPerMin, resetTime, mainVars, sleepDuration, dataVars,
                   grantAges, histVars>>

\* line 53 returns, and the loop of line 30 starts over
Wake(w) ==
    /\ pc[w] = "sleeping"
    /\ sleepDuration[w] = 0
    /\ pc' = [pc EXCEPT ![w] = "wait"]
    /\ UNCHANGED <<rlVars, mainVars, sleepDuration, dataVars, grantAges, histVars>>

----
(* processSymbol *)

\* lines 108-114, MkdirAll succeeding
MkdirAll(w) ==
    /\ pc[w] = "start"
    /\ w \in writable
    /\ dirs' = dirs \cup {w}
    /\ fromId' = [fromId EXCEPT ![w] = 0]
    /\ pc' = [pc EXCEPT ![w] = "wait"]
    /\ UNCHANGED <<rlVars, mainVars, sleepDuration, trades, groupedTrades, writable,
                   files, grantAges, histVars>>

\* lines 109-112 without the return of line 111
MkdirFailsGoesOn(w) ==
    /\ pc[w] = "start"
    /\ w \notin writable
    /\ fromId' = [fromId EXCEPT ![w] = 0]
    /\ pc' = [pc EXCEPT ![w] = "wait"]
    /\ UNCHANGED <<rlVars, mainVars, sleepDuration, trades, groupedTrades, writable,
                   dirs, files, grantAges, histVars>>

\* lines 109-111 and 192, MkdirAll failing
MkdirFails(w) ==
    /\ pc[w] = "start"
    /\ w \notin writable
    /\ pc' = [pc EXCEPT ![w] = "done"]
    /\ wg' = wg - 1
    /\ UNCHANGED <<rlVars, mainPc, i, launched, sleepDuration, dataVars, grantAges,
                   histVars>>

\* what every call of fetchTrades leaves in the histories
Fetched(w, what) ==
    /\ permits' = [permits EXCEPT ![w] = @ - 1]
    /\ answers' = [answers EXCEPT ![w] = Answered(@, what)]
    /\ lastFetch' = [lastFetch EXCEPT ![w] = what]

\* lines 122-126 as a return
FetchErrorReturns(w) ==
    /\ pc[w] = "fetch"
    /\ pc' = [pc EXCEPT ![w] = "done"]
    /\ wg' = wg - 1
    /\ Fetched(w, "error")
    /\ UNCHANGED <<rlVars, mainPc, i, launched, sleepDuration, dataVars, grantAges,
                   lastPageId, fetched>>

\* lines 122-126 with the cursor moved past the id that failed
FetchErrorSkipsAhead(w) ==
    /\ pc[w] = "fetch"
    /\ pc' = [pc EXCEPT ![w] = "backoff"]
    /\ sleepDuration' = [sleepDuration EXCEPT ![w] = Backoff]
    /\ fromId' = [fromId EXCEPT ![w] = @ + 1]
    /\ Fetched(w, "error")
    /\ UNCHANGED <<rlVars, mainVars, trades, groupedTrades, writable, dirs, files,
                   grantAges, lastPageId, fetched>>

\* lines 121-124: fetchTrades returns an error
FetchError(w) ==
    /\ pc[w] = "fetch"
    /\ pc' = [pc EXCEPT ![w] = "backoff"]
    /\ sleepDuration' = [sleepDuration EXCEPT ![w] = Backoff]
    /\ Fetched(w, "error")
    /\ UNCHANGED <<rlVars, mainVars, dataVars, grantAges, lastPageId, fetched>>

\* lines 124-125 with the continue landing on line 121, past rl.Wait()
RetrySkipsWait(w) ==
    /\ pc[w] = "backoff"
    /\ sleepDuration[w] = 0
    /\ pc' = [pc EXCEPT ![w] = "fetch"]
    /\ UNCHANGED <<rlVars, mainVars, sleepDuration, dataVars, grantAges, histVars>>

\* lines 124-125: the sleep is over
Retry(w) ==
    /\ pc[w] = "backoff"
    /\ sleepDuration[w] = 0
    /\ pc' = [pc EXCEPT ![w] = "wait"]
    /\ UNCHANGED <<rlVars, mainVars, sleepDuration, dataVars, grantAges, histVars>>

\* lines 128-131 as a continue
FetchEmptyContinues(w) ==
    /\ pc[w] = "fetch"
    /\ pc' = [pc EXCEPT ![w] = "wait"]
    /\ Fetched(w, "empty")
    /\ UNCHANGED <<rlVars, mainVars, sleepDuration, dataVars, grantAges, lastPageId,
                   fetched>>

\* lines 121, 128-130 and 192: fetchTrades returns no trade
FetchEmpty(w) ==
    /\ pc[w] = "fetch"
    /\ pc' = [pc EXCEPT ![w] = "done"]
    /\ wg' = wg - 1
    /\ Fetched(w, "empty")
    /\ UNCHANGED <<rlVars, mainPc, i, launched, sleepDuration, dataVars, grantAges,
                   lastPageId, fetched>>

\* lines 121-131: fetchTrades returns a page
FetchPage(w, page) ==
    /\ pc[w] = "fetch"
    /\ page \in PagesFrom(fromId[w])
    /\ trades' = [trades EXCEPT ![w] = page]
    /\ pc' = [pc EXCEPT ![w] = "group"]
    /\ Fetched(w, "page")
    /\ lastPageId' = [lastPageId EXCEPT ![w] = page[Len(page)].TradeId]
    /\ fetched' = [fetched EXCEPT ![w] = @ \cup {page[k] : k \in 1..Len(page)}]
    /\ UNCHANGED <<rlVars, mainVars, sleepDuration, fromId, groupedTrades, writable,
                   dirs, files, grantAges>>

\* line 133
GroupTrades(w) ==
    /\ pc[w] = "group"
    /\ groupedTrades' = [groupedTrades EXCEPT ![w] = groupTradesByDate(trades[w])]
    /\ pc' = [pc EXCEPT ![w] = "save"]
    /\ UNCHANGED <<rlVars, mainVars, sleepDuration, fromId, trades, writable, dirs,
                   files, grantAges, histVars>>

\* lines 136-138 with a break after the Printf: an error ends the loop
SaveBreaksOnError(w, date, outcome) ==
    /\ pc[w] = "save"
    /\ date \in DOMAIN groupedTrades[w]
    /\ LET saved == saveToCSV(files, FilePath(w, date), groupedTrades[w][date], outcome)
       IN  /\ files' = saved.fs
           /\ groupedTrades' = [groupedTrades EXCEPT
                                  ![w] = IF saved.err THEN <<>>
                                         ELSE [d \in DOMAIN @ \ {date} |-> @[d]]]
    /\ UNCHANGED <<rlVars, mainVars, pc, sleepDuration, fromId, trades, writable, dirs,
                   grantAges, histVars>>

\* lines 134-139: one turn of the loop, on any entry not yet visited
Save(w, date, outcome) ==
    /\ pc[w] = "save"
    /\ date \in DOMAIN groupedTrades[w]
    /\ files' = saveToCSV(files, FilePath(w, date), groupedTrades[w][date], outcome).fs
    /\ groupedTrades' = [groupedTrades EXCEPT
                           ![w] = [d \in DOMAIN @ \ {date} |-> @[d]]]
    /\ UNCHANGED <<rlVars, mainVars, pc, sleepDuration, fromId, trades, writable, dirs,
                   grantAges, histVars>>

\* lines 141-142, with the cursor moved to `next`
AdvanceTo(w, next) ==
    /\ pc[w] = "save"
    /\ DOMAIN groupedTrades[w] = {}
    /\ fromId' = [fromId EXCEPT ![w] = next]
    /\ trades' = [trades EXCEPT ![w] = <<>>]
    /\ pc' = [pc EXCEPT ![w] = "wait"]
    /\ UNCHANGED <<rlVars, mainVars, sleepDuration, groupedTrades, writable, dirs,
                   files, grantAges, histVars>>

\* line 142 as fromId += len(trades)
AdvanceByLength(w) == AdvanceTo(w, fromId[w] + Len(trades[w]))

\* line 142 as fromId = lastTrade.TradeId
AdvanceToLastId(w) == AdvanceTo(w, trades[w][Len(trades[w])].TradeId)

\* lines 141-142
Advance(w) == AdvanceTo(w, trades[w][Len(trades[w])].TradeId + 1)

----
(* the clock *)

\* time.Sleep is running
Asleep(w) == pc[w] \in {"sleeping", "backoff"}

\* the grants still younger than Period when d more ticks have passed
RECURSIVE Aged(_, _)
Aged(ages, d) ==
    IF ages = <<>> THEN <<>>
    ELSE IF Head(ages) + d >= Period THEN Aged(Tail(ages), d)
    ELSE <<Head(ages) + d>> \o Aged(Tail(ages), d)

\* d ticks pass; an offset below `floor` is kept as floor
ClockTick(d, floor) ==
    /\ resetTime' = Max(resetTime - d, floor)
    /\ sleepDuration' = [w \in Symbols |->
                           IF Asleep(w) THEN Max(sleepDuration[w] - d, 0)
                           ELSE sleepDuration[w]]
    /\ grantAges' = Aged(grantAges, d)
    /\ UNCHANGED <<count, limitPerMin, mu, mainVars, pc, dataVars, histVars>>

\* d ticks pass
Tick(d) == ClockTick(d, -1)

\* One tick passes, on a clock that tells an instant up to Period ticks in the past
\* from one further back.
TickTellingPast == ClockTick(1, 0 - (Period + 1))

----
Next ==
    \/ Spawn
    \/ WgWait
    \/ \E w \in Symbols : Lock(w)
    \/ \E w \in Symbols : Check(w)
    \/ \E w \in Symbols : UnlockGranted(w)
    \/ \E w \in Symbols : UnlockRefused(w)
    \/ \E w \in Symbols : Wake(w)
    \/ \E w \in Symbols : MkdirAll(w)
    \/ \E w \in Symbols : MkdirFails(w)
    \/ \E w \in Symbols : FetchError(w)
    \/ \E w \in Symbols : Retry(w)
    \/ \E w \in Symbols : FetchEmpty(w)
    \/ \E w \in Symbols, page \in Pages : FetchPage(w, page)
    \/ \E w \in Symbols : GroupTrades(w)
    \/ \E w \in Symbols : \E date \in DOMAIN groupedTrades[w], outcome \in Outcomes :
          Save(w, date, outcome)
    \/ \E w \in Symbols : Advance(w)
    \/ Tick(Period + 1)

Spec == InitOne /\ [][Next]_vars

\* The limiter and the goroutines around it, with a source that holds no trade.
NextRL ==
    \/ Spawn
    \/ WgWait
    \/ \E w \in Symbols : Lock(w)
    \/ \E w \in Symbols : Check(w)
    \/ \E w \in Symbols : UnlockGranted(w)
    \/ \E w \in Symbols : UnlockRefused(w)
    \/ \E w \in Symbols : Wake(w)
    \/ \E w \in Symbols : MkdirAll(w)
    \/ \E w \in Symbols : MkdirFails(w)
    \/ \E w \in Symbols : FetchError(w)
    \/ \E w \in Symbols : Retry(w)
    \/ \E w \in Symbols : FetchEmpty(w)
    \/ Tick(1)

SpecRL == Init /\ [][NextRL]_vars

(***************************************************************************)
(* Scheduling.  The Go scheduler runs every goroutine that can run, so a   *)
(* step of main or of a goroutine that stays possible is taken; a          *)
(* sync.Mutex hands the lock to a goroutine that keeps asking for it; a    *)
(* call of fetchTrades returns (its client has a timeout); the clock       *)
(* advances.                                                               *)
(***************************************************************************)
Runs(w) ==
    \/ Check(w) \/ UnlockGranted(w) \/ UnlockRefused(w) \/ Wake(w)
    \/ MkdirAll(w) \/ MkdirFails(w) \/ Retry(w)
    \/ FetchError(w) \/ FetchEmpty(w)

Fairness ==
    /\ WF_vars(Spawn)
    /\ WF_vars(WgWait)
    /\ WF_vars(Tick(1))
    /\ \A w \in Symbols : SF_vars(Lock(w)) /\ WF_vars(Runs(w))

SpecRLFair == Init /\ [][NextRL]_vars /\ Fairness

\* main alone is scheduled: what main does, whatever the goroutines do
SpecMain == Init /\ [][NextRL]_vars /\ WF_vars(Spawn) /\ WF_vars(WgWait)

\* A source that fails every call: fetchTrades only ever returns an error.  None,
\* one or two of the goroutines can make their directory.  The clock advances and
\* a goroutine whose sleep is over goes on.
InitErr == \E creatable \in {{}, {symbols[1]}, {symbols[1], symbols[2]}} : Start(creatable)

NextErr ==
    \/ Spawn
    \/ WgWait
    \/ \E w \in Symbols : Lock(w)
    \/ \E w \in Symbols : Check(w)
    \/ \E w \in Symbols : UnlockGranted(w)
    \/ \E w \in Symbols : UnlockRefused(w)
    \/ \E w \in Symbols : Wake(w)
    \/ \E w \in Symbols : MkdirAll(w)
    \/ \E w \in Symbols : MkdirFails(w)
    \/ \E w \in Symbols : FetchError(w)
    \/ \E w \in Symbols : Retry(w)
    \/ Tick(1)

SpecErr ==
    InitErr /\ [][NextErr]_vars /\ WF_vars(Tick(1)) /\ \A w \in Symbols : WF_vars(Retry(w))

\* The limiter with the goroutines of SpecErr around it, on the clock that tells
\* how long ago resetTime was.
NextWindow ==
    \/ Spawn
    \/ WgWait
    \/ \E w \in Symbols : Lock(w)
    \/ \E w \in Symbols : Check(w)
    \/ \E w \in Symbols : UnlockGranted(w)
    \/ \E w \in Symbols : UnlockRefused(w)
    \/ \E w \in Symbols : Wake(w)
    \/ \E w \in Symbols : MkdirAll(w)
    \/ \E w \in Symbols : MkdirFails(w)
    \/ \E w \in Symbols : FetchError(w)
    \/ \E w \in Symbols : Retry(w)
    \/ TickTellingPast

SpecWindow == InitErr /\ [][NextWindow]_vars

(***************************************************************************)
(* Two goroutines at work side by side: the directories of the first two   *)
(* symbols can be created, the limiter lets one request through in each    *)
(* window, the source returns pages of one trade, and a saveToCSV call     *)
(* either fails at OpenFile or writes all its lines.                       *)
(***************************************************************************)
InitTwo == Start({symbols[1], symbols[2]}) /\ limitPerMin = 1

PagesOfOne == {page \in Pages : Len(page) = 1 /\ page[1].Timestamp = MsPerDay}

AllOrNothing == {outcome \in Outcomes : outcome.opened => outcome.wrote = MaxLines}

NextTwo ==
    \/ Spawn
    \/ WgWait
    \/ \E w \in Symbols : Lock(w)
    \/ \E w \in Symbols : Check(w)
    \/ \E w \in Symbols : UnlockGranted(w)
    \/ \E w \in Symbols : UnlockRefused(w)
    \/ \E w \in Symbols : Wake(w)
    \/ \E w \in Symbols : MkdirAll(w)
    \/ \E w \in Symbols : MkdirFails(w)
    \/ \E w \in Symbols : FetchError(w)
    \/ \E w \in Symbols : Retry(w)
    \/ \E w \in Symbols : FetchEmpty(w)
    \/ \E w \in Symbols, page \in PagesOfOne : FetchPage(w, page)
    \/ \E w \in Symbols : GroupTrades(w)
    \/ \E w \in Symbols : \E date \in DOMAIN groupedTrades[w], outcome \in AllOrNothing :
          Save(w, date, outcome)
    \/ \E w \in Symbols : Advance(w)
    \/ Tick(Period + 1)

SpecTwo == InitTwo /\ [][NextTwo]_vars

\* The same source and file system with one goroutine at work, the two others
\* unable to make their directory, and main scheduled.
SpecOneFair == InitOne /\ [][NextTwo]_vars /\ WF_vars(Spawn) /\ WF_vars(WgWait)

\* groupTradesByDate alone: a goroutine has fetched any page as its first.
TestStamps == {-1, 0, MsPerDay - 1, MsPerDay}
TestTrades == [TradeId : {0, 12}, Price : {"0.5"}, Quantity : {"7"},
               Timestamp : TestStamps, IsMaker : BOOLEAN]
TestPages == UNION {[1..n -> TestTrades] : n \in 1..(MaxPageLen + 1)}

InitGroup ==
    /\ \E limit \in 1..MaxLimit : limitPerMin = limit
    /\ count = 1
    /\ resetTime = Period
    /\ mu = NoOne
    /\ writable = Symbols
    /\ mainPc = "spawn"
    /\ i = 2
    /\ wg = 1
    /\ launched = [w \in Symbols |-> IF w = symbols[1] THEN 1 ELSE 0]
    /\ pc = [w \in Symbols |-> IF w = symbols[1] THEN "group" ELSE "idle"]
    /\ sleepDuration = [w \in Symbols |-> 0]
    /\ fromId = [w \in Symbols |-> 0]
    /\ \E page \in TestPages :
          /\ trades = [w \in Symbols |-> IF w = symbols[1] THEN page ELSE <<>>]
          /\ lastPageId = [w \in Symbols |->
                             IF w = symbols[1] THEN page[Len(page)].TradeId ELSE None]
          /\ fetched = [w \in Symbols |->
                          IF w = symbols[1] THEN {page[k] : k \in 1..Len(page)} ELSE {}]
    /\ groupedTrades = [w \in Symbols |-> <<>>]
    /\ dirs = {symbols[1]}
    /\ files = <<>>
    /\ grantAges = <<0>>
    /\ permits = [w \in Symbols |-> 0]
    /\ answers = [w \in Symbols |-> IF w = symbols[1] THEN "page" ELSE "nothing"]
    /\ lastFetch = [w \in Symbols |-> IF w = symbols[1] THEN "page" ELSE "none"]

NextGroup == \E w \in Symbols : GroupTrades(w)

SpecGroup == InitGroup /\ [][NextGroup]_vars

----
(***************************************************************************)
(* The claims.                                                             *)
(***************************************************************************)

\* C1: no interval of length Period holds more than limitPerMin grants, wherever
\* it starts.  grantAges holds the grants of the last Period ticks, so the
\* interval ending now must hold at most limitPerMin of them.
C1_SlidingWindowCap == Len(grantAges) <= limitPerMin

\* what line 36 leaves in count when the window has expired, and count otherwise
AfterReset == IF Expired THEN 0 ELSE count

\* C2: count stays within 0..limitPerMin; it changes only in a step of the
\* goroutine that holds the mutex, which keeps it; a grant raises it by exactly
\* 1 from a value below limitPerMin (0 when the window has just been reset), and
\* any other change is a reset to 0.
C2_CountWithinLimit ==
    [][/\ count \in 0..limitPerMin
       /\ count' \in 0..limitPerMin
       /\ limitPerMin' = limitPerMin
       /\ \A w \in Symbols :
            (pc[w] # "granted" /\ pc'[w] = "granted") =>
                /\ mu = w /\ mu' = w
                /\ AfterReset < limitPerMin
                /\ count' = AfterReset + 1
       /\ count' # count =>
            /\ mu \in Symbols /\ mu' = mu
            /\ \/ pc'[mu] = "granted"
               \/ Expired /\ count' = 0]_vars

\* C2, reached: a grant has taken the last slot of a window of two or more.
C2_Witness ==
    \E w \in Symbols : pc[w] = "granted" /\ mu = w /\ count = limitPerMin /\ count >= 2

C4_PageThenEmpty ==
    \A w \in Symbols :
        answers[w] = "page,empty" =>
            /\ pc[w] = "done"
            /\ permits[w] = 0
            /\ fromId[w] = lastPageId[w] + 1

\* C4, reached: a goroutine has returned after a page and an empty page.
C4_Witness ==
    \E w \in Symbols : answers[w] = "page,empty" /\ pc[w] = "done" /\ fromId[w] = 2

\* C6, as claimed: a goroutine that has returned has had an empty page from its
\* latest fetch.
C6_StopsOnlyOnEmptyPage ==
    \A w \in Symbols : pc[w] = "done" => lastFetch[w] = "empty"

\* C6, amended: a goroutine that has returned either has had an empty page from
\* its latest fetch, or could not create its directory and has fetched nothing.
C6_StopsOnEmptyPageOrMkdir ==
    \A w \in Symbols :
        pc[w] = "done" =>
            \/ lastFetch[w] = "empty"
            \/ w \notin dirs /\ lastFetch[w] = "none" /\ permits[w] = 0

\* C6, reached: one goroutine has returned after a page and then an empty page,
\* another because its directory could not be made.
C6_Witness ==
    /\ \E w \in Symbols :
          pc[w] = "done" /\ w \in dirs /\ lastFetch[w] = "empty" /\ lastPageId[w] # None
    /\ \E w \in Symbols :
          pc[w] = "done" /\ w \notin dirs /\ lastFetch[w] = "none"

\* the lines of the file at path, none when there is no such file
Lines(path) == IF path \in DOMAIN files THEN files[path] ELSE <<>>

\* C7: every trade a fetch has returned to a goroutine is a row of the file of its
\* symbol and UTC day, once the goroutine is through with the page.
C7_AtLeastOnce ==
    \A w \in Symbols :
        pc[w] \notin {"group", "save"} =>
            \A t \in fetched[w] :
                \E k \in DOMAIN Lines(FilePath(w, DateStr(t.Timestamp))) :
                    Lines(FilePath(w, DateStr(t.Timestamp)))[k] = Record(t)

\* C8: a file that holds anything holds the header as its first line and nowhere
\* else.
C8_HeaderOnce ==
    \A path \in DOMAIN files :
        files[path] # <<>> =>
            /\ files[path][1] = header
            /\ \A k \in 2..Len(files[path]) : files[path][k] # header
AllDone == \A w \in Symbols : pc[w] = "done"

\* C5: main starts one goroutine for each symbol, no more; it reports completion
\* only when every one of them has returned; and once they all have, it does
\* report completion.
C5_OneWorkerEachThenCompletion ==
    /\ [](/\ \A w \in Symbols : launched[w] <= 1
          /\ mainPc # "spawn" => \A w \in Symbols : launched[w] = 1
          /\ mainPc = "finished" => AllDone)
    /\ (AllDone ~> mainPc = "finished")

\* C5, reached: main has reported completion, after a goroutine that fetched.
C5_Witness ==
    /\ mainPc = "finished"
    /\ AllDone
    /\ \E w \in Symbols : lastFetch[w] = "empty"

\* the UTC day of a timestamp within two days of the epoch, from the calendar
UTCDay(ms) ==
    CASE ms \in (0 - MsPerDay)..(-1) -> "1969-12-31"
      [] ms \in 0..(MsPerDay - 1) -> "1970-01-01"
      [] ms \in MsPerDay..(2 * MsPerDay - 1) -> "1970-01-02"

\* the rows of the trades of `page` that fall on `date`, in the order of the page
RowsOn(page, date) ==
    LET on == SelectSeq(page, LAMBDA t : UTCDay(t.Timestamp) = date)
    IN  [k \in 1..Len(on) |-> Record(on[k])]

RECURSIVE TotalRows(_, _)
TotalRows(grouped, dates) ==
    IF dates = {} THEN 0
    ELSE LET d == CHOOSE x \in dates : TRUE
         IN  Len(grouped[d]) + TotalRows(grouped, dates \ {d})

\* C9: the map groupTradesByDate makes of a page has one bucket for each UTC day
\* on which a trade of the page falls; the bucket of a day holds the rows of the
\* trades of that day, each once and in the order of the page; the sizes of the
\* buckets add up to the length of the page.
C9_GroupIsPartition ==
    \A w \in Symbols :
        pc[w] = "save" =>
            LET page == trades[w]
                grouped == groupedTrades[w]
            IN  /\ DOMAIN grouped = {UTCDay(page[k].Timestamp) : k \in 1..Len(page)}
                /\ \A date \in DOMAIN grouped : grouped[date] = RowsOn(page, date)
                /\ TotalRows(grouped, DOMAIN grouped) = Len(page)

\* C9, reached: a page of three trades, the second on another day than the first and
\* the third, has been grouped into two buckets.
C9_Witness ==
    \E w \in Symbols :
        /\ pc[w] = "save"
        /\ Len(trades[w]) = 3
        /\ UTCDay(trades[w][1].Timestamp) = UTCDay(trades[w][3].Timestamp)
        /\ UTCDay(trades[w][1].Timestamp) # UTCDay(trades[w][2].Timestamp)
        /\ Cardinality(DOMAIN groupedTrades[w]) = 2

\* inside RateLimiter.Wait
InWait(w) == pc[w] \in {"wait", "locked", "granted", "refused", "sleeping"}

\* C10: every call of RateLimiter.Wait returns.
C10_WaitReturns == \A w \in Symbols : InWait(w) ~> (pc[w] = "fetch")

\* C11: a goroutine's fromId is 0 until it has fetched a page; no step lowers it;
\* and the step that ends the handling of a page (lines 141-142) raises it.
C11_CursorMonotonic ==
    [][\A w \in Symbols :
          /\ lastPageId[w] = None => fromId[w] = 0
          /\ fromId'[w] >= fromId[w]
          /\ (pc[w] = "save" /\ pc'[w] = "wait") => fromId'[w] > fromId[w]]_vars

\* C11, reached: the cursor has been raised twice, past a page none of whose rows
\* was written and after a fetch that failed.
C11_Witness ==
    \E w \in Symbols :
        /\ fromId[w] = 2
        /\ pc[w] = "wait"
        /\ lastFetch[w] = "page"
        /\ answers[w] = "other"
        /\ \A path \in DOMAIN files : files[path] = <<>>
\* C12: a goroutine is about to call fetchTrades exactly when it holds one return
\* from Wait it has not yet used, and it never holds more than one: every call
\* uses up a return of its own, so the calls made never outnumber the grants.
C12_FetchOnOwnGrant ==
    \A w \in Symbols :
        /\ permits[w] \in {0, 1}
        /\ pc[w] = "fetch" <=> permits[w] = 1

\* C12, reached: a goroutine whose latest fetch failed is about to fetch again, on
\* a new return from Wait, while another goroutine is about to fetch too.
C12_Witness ==
    \E w, v \in Symbols :
        /\ w # v
        /\ pc[w] = "fetch" /\ lastFetch[w] = "error" /\ permits[w] = 1
        /\ pc[v] = "fetch" /\ lastFetch[v] = "page"
\* C13: when every fetch fails, a goroutine whose directory could be made never
\* returns, main never reports completion while there is such a goroutine, and
\* every failed fetch is followed, once the backoff is over, by the goroutine
\* being back at the top of its loop, about to call Wait again.
C13_ErrorsForever ==
    /\ [](\A w \in writable : pc[w] # "done")
    /\ [](writable # {} => mainPc # "finished")
    /\ \A w \in Symbols : (pc[w] = "backoff") ~> (pc[w] = "wait")

\* C13, reached: a goroutine is about to fetch again after a fetch that failed,
\* and main waits for it alone.
C13_Witness ==
    \E w \in Symbols :
        /\ pc[w] = "fetch" /\ lastFetch[w] = "error"
        /\ mainPc = "wait" /\ wg = 1
\* trade t of symbol w is a row of the file of its day in file system fs
WrittenIn(fs, w, t) ==
    LET path == FilePath(w, DateStr(t.Timestamp))
    IN  path \in DOMAIN fs /\ \E k \in DOMAIN fs[path] : fs[path][k] = Record(t)

\* the trades of the page a goroutine is handling
InPage(w) == {trades[w][k] : k \in 1..Len(trades[w])}

\* C14: while a goroutine ranges over the partitions of a page, each step takes
\* one partition off those still to be tried, whether its write fails or not,
\* and leaves the goroutine in the loop; the loop ends only when none is left, and
\* then the cursor is the page's last id plus 1 and the goroutine is back at the top
\* of its loop; a trade of an earlier page that is not in its file is not put there
\* by any later step.
C14_WriteErrorSkipsOnlyPartition ==
    [][\A w \in Symbols :
          /\ pc[w] = "save" =>
                \/ /\ pc'[w] = "save"
                   /\ \/ groupedTrades'[w] = groupedTrades[w]
                      \/ \E date \in DOMAIN groupedTrades[w] :
                            /\ DOMAIN groupedTrades'[w] = DOMAIN groupedTrades[w] \ {date}
                            /\ \A d \in DOMAIN groupedTrades'[w] :
                                  groupedTrades'[w][d] = groupedTrades[w][d]
                \/ /\ pc'[w] = "wait"
                   /\ DOMAIN groupedTrades[w] = {}
                   /\ fromId'[w] = lastPageId[w] + 1
          /\ files' # files =>
                \A t \in fetched[w] \ InPage(w) :
                    ~WrittenIn(files, w, t) => ~WrittenIn(files', w, t)]_vars

\* C14, reached: of a page of two trades on two days, the first a goroutine
\* fetched, one trade is in its file and the other, whose write failed, is not;
\* the cursor is past the page and the goroutine is about to fetch again.
C14_Witness ==
    \E w \in Symbols :
        /\ pc[w] = "fetch" /\ answers[w] = "page" /\ fromId[w] = 2
        /\ \E t, u \in fetched[w] :
              /\ DateStr(t.Timestamp) # DateStr(u.Timestamp)
              /\ WrittenIn(files, w, t)
              /\ ~WrittenIn(files, w, u)
\* between the Lock of line 31 and the Unlock of line 43 or 49
InCriticalSection(w) == pc[w] \in {"locked", "granted", "refused"}

\* C15: the mutex is held by a goroutine exactly while that goroutine is between
\* Lock and Unlock in Wait, so by none that sleeps, backs off, fetches, groups or
\* writes, and by none that has been granted or refused and has gone on; no two
\* goroutines are between Lock and Unlock at once.
C15_MutexOnlyInCriticalSection ==
    /\ mu \in Symbols \cup {NoOne}
    /\ \A w \in Symbols : mu = w <=> InCriticalSection(w)
    /\ Cardinality({w \in Symbols : InCriticalSection(w)}) <= 1

\* C15, reached: a goroutine holds the mutex, refused, while another writes the
\* files of its page.
C15_Witness ==
    \E w, v \in Symbols :
        /\ pc[w] = "refused" /\ mu = w
        /\ pc[v] = "save" /\ files # <<>>
\* lines 33-47 are run by goroutine w in this step
Checks(w) == pc[w] = "locked" /\ pc'[w] # "locked"

\* C16, as claimed: a run of lines 33-47 resets the window exactly when the
\* stored resetTime lies more than a period back, and no other step resets it.
C16_ResetAPeriodAfterStored ==
    [][/\ \A w \in Symbols :
            Checks(w) => (resetTime' > resetTime <=> resetTime < 0 - Period)
       /\ (\A w \in Symbols : ~Checks(w)) => resetTime' <= resetTime]_vars

\* C16, amended: a run of lines 33-47 resets the window exactly when the stored
\* resetTime lies in the past: then resetTime becomes now + Period and count
\* restarts from 0 (it is 1 after the grant that follows); otherwise resetTime is
\* left alone and count is not lowered.  A refused caller's sleep is the stored
\* resetTime less now.  No other step moves resetTime forward or changes count.
C16_ResetWhenStoredIsPast ==
    [][/\ \A w \in Symbols :
            Checks(w) =>
                /\ resetTime < 0 =>
                      /\ resetTime' = Period
                      /\ count' = IF pc'[w] = "granted" THEN 1 ELSE 0
                /\ resetTime >= 0 =>
                      /\ resetTime' = resetTime
                      /\ count' >= count
                /\ pc'[w] = "refused" => sleepDuration'[w] = resetTime'
       /\ (\A w \in Symbols : ~Checks(w)) =>
            /\ resetTime' <= resetTime
            /\ count' = count]_vars

\* C16, reached: with a limit of 1, a grant follows another by less than a period:
\* the window was reset less than a period after the stored resetTime.
C16_Witness ==
    \E w \in Symbols :
        /\ limitPerMin = 1
        /\ pc[w] = "granted"
        /\ count = 1
        /\ resetTime = Period
        /\ Len(grantAges) = 2
\* the files of symbol w
Dates == {DateStr(stamp) : stamp \in Stamps}
FilesOf(w) == {FilePath(w, date) : date \in Dates} \cap DOMAIN files

\* C17: a goroutine whose directory cannot be made is only ever not started, at
\* its start, or returned: it holds no return from Wait, has fetched nothing, has
\* no directory and no file; the step by which it returns changes neither the
\* limiter nor the file system; and when all goroutines have returned, it among
\* them, main reports completion.
C17_MkdirFailureEndsWorker ==
    /\ [](\A w \in Symbols \ writable :
            /\ pc[w] \in {"idle", "start", "done"}
            /\ permits[w] = 0
            /\ lastFetch[w] = "none"
            /\ w \notin dirs
            /\ FilesOf(w) = {})
    /\ [][\A w \in Symbols \ writable :
              pc'[w] # pc[w] => UNCHANGED <<count, resetTime, mu, dirs, files>>]_vars
    /\ (AllDone ~> mainPc = "finished")

\* C17, reached: main has reported completion after a goroutine that could not
\* make its directory and one that wrote a file and came to the end of the source.
C17_Witness ==
    /\ mainPc = "finished"
    /\ \E w \in Symbols \ writable : pc[w] = "done"
    /\ \E w \in writable : pc[w] = "done" /\ FilesOf(w) # {}
\* the rows of trades in the file at path, in the order of the file
DataRows(path) == SelectSeq(files[path], LAMBDA line : line # header)

\* the first field of the row of each trade id
IdText == [n \in 0..MaxId |-> FormatInt(n)]

\* the trade id a row was written from
IdOf(row) == CHOOSE n \in 0..MaxId : IdText[n] = row[1]

\* the trade ids of the rows of the file at path, in the order of the file
IdsIn(path) == LET rows == DataRows(path) IN [k \in DOMAIN rows |-> IdOf(rows[k])]

OwnPaths(w) == {FilePath(w, date) : date \in Dates}

\* C19: the step in which a fetch returns an error or no trade changes neither
\* the goroutine's cursor nor any file; the cursor changes in no step but the one
\* that ends the handling of a page, so the fetch after an error asks for the same
\* fromId; and a step that is not a goroutine's own changes neither its cursor nor
\* the files of its symbol.
C19_FailedFetchAndOthersLeaveAlone ==
    [][\A w \in Symbols :
          /\ (pc[w] = "fetch" /\ pc'[w] \in {"backoff", "done"}) =>
                fromId'[w] = fromId[w] /\ files' = files
          /\ pc[w] # "save" => fromId'[w] = fromId[w]
          /\ (pc'[w] = pc[w] /\ groupedTrades'[w] = groupedTrades[w]) =>
                /\ fromId'[w] = fromId[w]
                /\ files' # files =>
                      \A path \in OwnPaths(w) :
                          /\ path \in DOMAIN files' <=> path \in DOMAIN files
                          /\ path \in DOMAIN files => files'[path] = files[path]]_vars

\* C19, reached: a goroutine is about to fetch again from 1 after a page and then
\* an error, while another has moved its own cursor to 2, and both have files.
C19_Witness ==
    \E w, v \in Symbols :
        /\ pc[w] = "fetch" /\ lastFetch[w] = "error" /\ fromId[w] = 1
        /\ fromId[v] = 2
        /\ FilesOf(w) # {} /\ FilesOf(v) # {}
\* C20: count is lowered only by a reset, in a run of lines 33-47 that finds the
\* stored resetTime in the past; a caller is refused only at count = limitPerMin;
\* a grant made at count = limitPerMin comes with a reset; and a grant without a
\* reset adds exactly 1 to count.  So count is the number of grants since the
\* latest reset, never above limitPerMin.
C20_GrantAfterRefusalNeedsReset ==
    [][/\ count <= limitPerMin
       /\ count' < count => (resetTime < 0 /\ resetTime' = Period /\ count' <= 1)
       /\ \A w \in Symbols :
            /\ (pc[w] = "locked" /\ pc'[w] = "refused") =>
                  count' = limitPerMin /\ resetTime' = resetTime
            /\ (pc[w] = "locked" /\ pc'[w] = "granted") =>
                  /\ count = limitPerMin => resetTime < 0
                  /\ resetTime >= 0 => count' = count + 1
                  /\ resetTime < 0 => count' = 1]_vars

\* C20, reached: with a limit of 2, two grants used up a window, and the next
\* grant, to a goroutine that had not fetched yet, came with the reset.
C20_Witness ==
    \E w \in Symbols :
        /\ limitPerMin = 2
        /\ pc[w] = "granted" /\ lastFetch[w] = "none"
        /\ count = 1 /\ resetTime = Period
        /\ Len(grantAges) = 3
====
